---- MODULE Spec2Model ----
(***************************************************************************)
(* Model of Sender.js: the host side of a chunked stop-and-wait transfer   *)
(* over a serial line.  One action per event-loop callback of the program: *)
(* the async main function, the serial port's open / error events, the     *)
(* start timer, the readline parser's data handler, and the timeout and    *)
(* interval callbacks of every sendChunk burst.                            *)
(***************************************************************************)
EXTENDS Integers, Sequences, FiniteSets, TLC

VARIABLES
  pc,         \* position of the process: "main", "reading", "waitStart", "running", "exited", "crashed"
  exitCode,   \* -1 while the process lives, else the process exit status
  fatal,      \* the fatal setup error that has occurred ("none" if none)
  payload,    \* inFile: the bytes read from the input file
  chunks,     \* chunks: the result of inGroupsOf(inFile, 8)
  idx,        \* indexManager's idx
  max,        \* indexManager's max
  port,       \* the serial connection: "none", "opening", "open", "error", "closed"
  base64,     \* the implicit global `base64` assigned by sendChunk
  writers,    \* one record per sendChunk call: its closure (data, idx) and timer state
  lastWrite,  \* the last connection.write call: writer, position, character, and whether its callback got an error
  sentLog,    \* the sendChunk calls so far: chunk index and framed block
  rxLog,      \* the classified responses handled so far ("S" / "F")
  nLines,     \* number of lines the parser has delivered
  lastLine    \* the last line the parser delivered

vars == <<pc, exitCode, fatal, payload, chunks, idx, max, port, base64, writers,
          lastWrite, sentLog, rxLog, nLines, lastLine>>

----------------------------------------------------------------------------
(* Bounds of the model *)

\* longest payload read from the input file
MaxLen == 9
\* number of lines the peer sends in one run
MaxLines == 2
\* a peer line is delivered only while at most this many bursts are unfinished
MaxBusy == 1

\* chunk size passed to inGroupsOf and assumed by appendPadding
ChunkSize == 8

\* input files: one of every length up to MaxLen, of varied bytes (odd and
\* even, a zero byte at position 14)
Payload(L) == [i \in 1..L |-> (37 * i + 250) % 256]
Payloads == {Payload(L) : L \in 0..MaxLen}

\* lines the peer may send (without the line delimiter)
Lines == { <<"k">>, <<"f">>, <<" ", "k", "\r">>, <<"k", "f">>, <<" ">> }

----------------------------------------------------------------------------
(* Pure helpers *)

Min(a, b) == IF a < b THEN a ELSE b

Zeros(n) == [i \in 1..n |-> 0]

\* String.prototype.trim on a sequence of characters
WhiteSpace == {" ", "\t", "\r", "\n"}

RECURSIVE TrimLeft(_)
TrimLeft(s) ==
  IF s # <<>> /\ Head(s) \in WhiteSpace THEN TrimLeft(Tail(s)) ELSE s

RECURSIVE TrimRight(_)
TrimRight(s) ==
  IF s # <<>> /\ s[Len(s)] \in WhiteSpace
    THEN TrimRight(SubSeq(s, 1, Len(s) - 1))
    ELSE s

Trim(s) == TrimRight(TrimLeft(s))

\* Classify with a prefix test in place of the exact match
Classify_Prefix(line) ==
  LET response == Trim(line) IN
  IF response # <<>> /\ Head(response) = "k" THEN "S"
  ELSE IF response # <<>> /\ Head(response) = "f" THEN "F"
  ELSE "U"

\* the parser's classification of a line
Classify(line) ==
  LET response == Trim(line) IN
  IF response = <<"k">> THEN "S"
  ELSE IF response = <<"f">> THEN "F"
  ELSE "U"

\* inGroupsOf(ary, size): slices of size bytes, the last one shorter
RECURSIVE GroupsFrom(_, _, _)
GroupsFrom(ary, size, i) ==
  IF i < Len(ary)
    THEN <<SubSeq(ary, i + 1, Min(i + size, Len(ary)))>> \o GroupsFrom(ary, size, i + size)
    ELSE <<>>

inGroupsOf(ary, size) == GroupsFrom(ary, size, 0)

\* Buffer.concat([a, b], totalLength): cut, or filled with zeros, to totalLength
bufferConcat(a, b, totalLength) ==
  LET all == a \o b IN
  IF Len(all) >= totalLength THEN SubSeq(all, 1, totalLength)
  ELSE all \o Zeros(totalLength - Len(all))

\* appendPadding that pads one byte short
appendPadding_Short(buf) ==
  IF Len(buf) = ChunkSize THEN buf ELSE buf \o Zeros(ChunkSize - Len(buf) - 1)

\* appendPadding(buf)
appendPadding(buf) ==
  IF Len(buf) = ChunkSize THEN buf
  ELSE bufferConcat(buf, Zeros(ChunkSize - Len(buf)), ChunkSize)

\* x << 1 on a 32-bit signed integer, for 0 <= x < 2^31
ShiftLeft1(x) ==
  IF x < 1073741824 THEN x * 2 ELSE (x - 1073741824) * 2 - 2147483647 - 1

\* checkSum without the parentheses: cs << 1 + bit shifts by 1 + bit
RECURSIVE checkSumFrom_Precedence(_, _, _)
checkSumFrom_Precedence(data, i, cs) ==
  IF i > Len(data) THEN cs
  ELSE checkSumFrom_Precedence(data, i + 1,
         IF data[i] % 2 = 1 THEN ShiftLeft1(ShiftLeft1(cs)) ELSE ShiftLeft1(cs))

\* checkSum(data): cs = (cs << 1) + least-significant bit, over the bytes in order
RECURSIVE checkSumFrom(_, _, _)
checkSumFrom(data, i, cs) ==
  IF i > Len(data) THEN cs
  ELSE checkSumFrom(data, i + 1, ShiftLeft1(cs) + (data[i] % 2))

checkSum(data) == checkSumFrom(data, 1, 0)

\* appendChecksum(buf): Buffer.alloc(1, [cs]) keeps the low byte of cs
appendChecksum(buf) == bufferConcat(buf, <<checkSum(buf) % 256>>, ChunkSize + 1)

\* the framed block sendChunk builds from a stored chunk
Frame(data) == appendChecksum(appendPadding(data))

\* Buffer.toString('base64')
B64Alphabet ==
  << "A","B","C","D","E","F","G","H","I","J","K","L","M","N","O","P",
     "Q","R","S","T","U","V","W","X","Y","Z","a","b","c","d","e","f",
     "g","h","i","j","k","l","m","n","o","p","q","r","s","t","u","v",
     "w","x","y","z","0","1","2","3","4","5","6","7","8","9","+","/" >>

B64Char(v) == B64Alphabet[v + 1]

RECURSIVE toBase64(_)
toBase64(b) ==
  IF Len(b) = 0 THEN <<>>
  ELSE IF Len(b) = 1 THEN
    << B64Char(b[1] \div 4), B64Char((b[1] % 4) * 16), "=", "=" >>
  ELSE IF Len(b) = 2 THEN
    << B64Char(b[1] \div 4), B64Char((b[1] % 4) * 16 + b[2] \div 16),
       B64Char((b[2] % 16) * 4), "=" >>
  ELSE
    << B64Char(b[1] \div 4), B64Char((b[1] % 4) * 16 + b[2] \div 16),
       B64Char((b[2] % 16) * 4 + b[3] \div 64), B64Char(b[3] % 64) >>
    \o toBase64(SubSeq(b, 4, Len(b)))

----------------------------------------------------------------------------
(* State after construction: the script has been loaded, main not yet run *)

NoWrite == [w |-> 0, pos |-> 0, c |-> "", err |-> FALSE]

Init ==
  /\ pc = "main"
  /\ exitCode = -1
  /\ fatal = "none"
  /\ payload = <<>>
  /\ chunks = <<>>
  /\ idx = 0
  /\ max = 0
  /\ port = "none"
  /\ base64 = <<>>
  /\ writers = <<>>
  /\ lastWrite = NoWrite
  /\ sentLog = <<>>
  /\ rxLog = <<>>
  /\ nLines = 0
  /\ lastLine = <<>>

\* process.exit(code): nothing of the program runs afterwards
Exit(code) ==
  /\ pc' = "exited"
  /\ exitCode' = code

\* number of bursts whose interval is not yet cleared
Busy == Cardinality({w \in 1..Len(writers) : writers[w].st # "done"})

----------------------------------------------------------------------------
(* indexManager *)

\* increase that reports the end one index early
increase_EarlyStop(i, m) ==
  IF i >= m - 1 THEN [null |-> TRUE, idx |-> i]
  ELSE [null |-> FALSE, idx |-> i + 1]

\* increase that still advances at the last index
increase_OffByOne(i, m) ==
  IF i > m THEN [null |-> TRUE, idx |-> i]
  ELSE [null |-> FALSE, idx |-> i + 1]

\* index.increase(): null at the last index, else the advanced index
increase(i, m) ==
  IF i >= m THEN [null |-> TRUE, idx |-> i]
  ELSE [null |-> FALSE, idx |-> i + 1]

\* get that answers the index after the current one
get_Next(i) == [null |-> FALSE, idx |-> i + 1]

\* get that answers null
get_Null(i) == [null |-> TRUE, idx |-> i]

\* index.get()
get(i) == [null |-> FALSE, idx |-> i]

----------------------------------------------------------------------------
(* sendChunk and the handlers that call it *)

\* the synchronous part of sendChunk(connection, data); i is the index the
\* caller logged.  The stored chunk is only read: padding and checksum build
\* new buffers.
sendChunk(data, i) ==
  LET framed == Frame(data) IN
  /\ base64' = toBase64(framed)
  /\ writers' = Append(writers, [data |-> framed, idx |-> 0, st |-> "timeout"])
  /\ sentLog' = Append(sentLog, [index |-> i, frame |-> framed])

\* an exception nobody catches, thrown inside an event-loop callback
Crash ==
  /\ pc' = "crashed"
  /\ exitCode' = 1

\* quit that closes the connection and lets the process live
quit_NoExit ==
  /\ port' = "closed"
  /\ UNCHANGED <<pc, exitCode>>

\* quit(connection)
quit ==
  /\ port' = "closed"
  /\ Exit(0)

\* sendChunkAt that also starts the burst of the following chunk
sendChunkAt_Pipelined(i) ==
  IF i + 1 \in DOMAIN chunks
    THEN /\ LET these == IF i + 2 \in DOMAIN chunks THEN <<i, i + 1>> ELSE <<i>>
                frames == [n \in 1..Len(these) |-> Frame(chunks[these[n] + 1])]
            IN /\ base64' = toBase64(frames[Len(these)])
               /\ writers' = writers \o [n \in 1..Len(these) |->
                                 [data |-> frames[n], idx |-> 0, st |-> "timeout"]]
               /\ sentLog' = sentLog \o [n \in 1..Len(these) |->
                                 [index |-> these[n], frame |-> frames[n]]]
         /\ pc' = "running"
         /\ UNCHANGED <<exitCode, port>>
    ELSE Crash /\ UNCHANGED <<base64, writers, sentLog, port>>

\* sendChunk(connection, chunks[i]) as a handler calls it.  chunks[i] is
\* undefined outside the chunk list; appendPadding(undefined) then throws and
\* the exception leaves the handler uncaught.  After a send the handler
\* returns to the event loop with the session running.
sendChunkAt(i) ==
  IF i + 1 \in DOMAIN chunks
    THEN sendChunk(chunks[i + 1], i) /\ pc' = "running" /\ UNCHANGED <<exitCode, port>>
    ELSE Crash /\ UNCHANGED <<base64, writers, sentLog, port>>

\* sendFirstChunk that takes the chunk list as 1-based
sendFirstChunk_One == sendChunkAt(1)

\* sendFirstChunk(connection, chunks[0])
sendFirstChunk == sendChunkAt(0)

\* sendNextChunk(connection, index, chunks, emitter)
sendNextChunk ==
  LET r == increase(idx, max) IN
  /\ idx' = r.idx
  /\ IF r.null
       THEN quit /\ UNCHANGED <<base64, writers, sentLog>>
       ELSE sendChunkAt(r.idx)

\* repeatChunk that gives up at the second Failure in a row
repeatChunk_Ceiling ==
  /\ idx' = idx
  /\ IF rxLog # <<>> /\ rxLog[Len(rxLog)] = "F"
       THEN port' = "closed" /\ Exit(1) /\ UNCHANGED <<base64, writers, sentLog>>
       ELSE sendChunkAt(idx)

\* repeatChunk(connection, index, chunks, emitter)
repeatChunk ==
  LET r == get(idx) IN
  /\ idx' = idx
  /\ IF r.null
       THEN quit /\ UNCHANGED <<base64, writers, sentLog>>
       ELSE sendChunkAt(r.idx)

----------------------------------------------------------------------------
(* main *)

\* main up to the await: the argument check
MainBegin ==
  /\ pc = "main"
  /\ \E hasArg \in BOOLEAN :
       IF hasArg
         THEN pc' = "reading" /\ UNCHANGED <<exitCode, fatal>>
         ELSE Exit(1) /\ fatal' = "noarg"
  /\ UNCHANGED <<payload, chunks, idx, max, port, base64, writers, lastWrite,
                 sentLog, rxLog, nLines, lastLine>>

\* readFile rejects: the catch block logs and exits
MainReadFailed ==
  /\ pc = "reading"
  /\ Exit(1)
  /\ fatal' = "read"
  /\ UNCHANGED <<payload, chunks, idx, max, port, base64, writers, lastWrite,
                 sentLog, rxLog, nLines, lastLine>>

\* readFile resolves: chunking, config, connection, index manager, handlers
\* and the start timer.  JSON.parse or the SerialPort constructor may throw.
MainSetup ==
  /\ pc = "reading"
  /\ \E p \in Payloads, configOk \in BOOLEAN, ctorOk \in BOOLEAN :
       /\ payload' = p
       /\ chunks' = inGroupsOf(p, ChunkSize)
       /\ IF ~configOk
            THEN /\ Exit(1)
                 /\ fatal' = "config"
                 /\ UNCHANGED <<idx, max, port>>
            ELSE IF ~ctorOk
              THEN /\ Exit(1)
                   /\ fatal' = "open"
                   /\ UNCHANGED <<idx, max, port>>
              ELSE /\ port' = "opening"
                   /\ idx' = 0
                   /\ max' = Len(chunks') - 1
                   /\ pc' = "waitStart"
                   /\ UNCHANGED <<exitCode, fatal>>
  /\ UNCHANGED <<base64, writers, lastWrite, sentLog, rxLog, nLines, lastLine>>

----------------------------------------------------------------------------
(* the serial port's own events *)

Alive == pc \in {"waitStart", "running"}

\* the port opens
PortOpen ==
  /\ Alive
  /\ port = "opening"
  /\ port' = "open"
  /\ UNCHANGED <<pc, exitCode, fatal, payload, chunks, idx, max, base64,
                 writers, lastWrite, sentLog, rxLog, nLines, lastLine>>

\* the port fails to open: the error handler of connectSerial only logs
PortError ==
  /\ Alive
  /\ port = "opening"
  /\ port' = "error"
  /\ fatal' = "open"
  /\ UNCHANGED <<pc, exitCode, payload, chunks, idx, max, base64,
                 writers, lastWrite, sentLog, rxLog, nLines, lastLine>>

----------------------------------------------------------------------------
(* the start timer: establishParser, then emit START *)

\* a start callback that runs a second time
Start_Twice ==
  /\ pc \in {"waitStart", "running"}
  /\ Len(sentLog) < 2
  /\ rxLog = <<>>
  /\ sendFirstChunk
  /\ UNCHANGED <<fatal, payload, chunks, idx, max, lastWrite, rxLog,
                 nLines, lastLine>>

Start ==
  /\ pc = "waitStart"
  /\ sendFirstChunk
  /\ UNCHANGED <<fatal, payload, chunks, idx, max, lastWrite, rxLog,
                 nLines, lastLine>>

----------------------------------------------------------------------------
(* the parser's data handler *)

\* parser.on('data'): emit CHUNK_SUCCESS / CHUNK_FAILURE, whose listeners run
\* synchronously, or log the line
OnData(line) ==
  LET kind == Classify(line) IN
  /\ nLines' = nLines + 1
  /\ lastLine' = line
  /\ IF kind = "S"
       THEN sendNextChunk /\ rxLog' = Append(rxLog, "S")
       ELSE IF kind = "F"
         THEN repeatChunk /\ rxLog' = Append(rxLog, "F")
         ELSE UNCHANGED <<pc, exitCode, idx, port, base64, writers, sentLog, rxLog>>

RecvLine ==
  /\ pc = "running"
  /\ port = "open"
  /\ nLines < MaxLines
  /\ Busy <= MaxBusy
  /\ \E line \in Lines : OnData(line)
  /\ UNCHANGED <<fatal, payload, chunks, max, lastWrite>>

----------------------------------------------------------------------------
(* the byte-paced writer of one sendChunk call *)

\* setTimeout(..., chunkTimeout) fires and installs the interval
WriterTimeout(w) ==
  /\ pc = "running"
  /\ writers[w].st = "timeout"
  /\ writers' = [writers EXCEPT ![w].st = "interval"]
  /\ UNCHANGED <<pc, exitCode, fatal, payload, chunks, idx, max, port, base64,
                 lastWrite, sentLog, rxLog, nLines, lastLine>>

\* WriterTick that clears the interval when a write fails
WriterTick_AbortOnError(w) ==
  /\ pc = "running"
  /\ writers[w].st = "interval"
  /\ IF writers[w].idx = Len(base64)
       THEN /\ writers' = [writers EXCEPT ![w].st = "done"]
            /\ UNCHANGED lastWrite
       ELSE \E failed \in BOOLEAN :
            /\ lastWrite' = [w |-> w, pos |-> writers[w].idx,
                             c |-> base64[writers[w].idx + 1], err |-> failed]
            /\ writers' = IF failed THEN [writers EXCEPT ![w].st = "done"]
                          ELSE [writers EXCEPT ![w].idx = @ + 1]
  /\ UNCHANGED <<pc, exitCode, fatal, payload, chunks, idx, max, port, base64,
                 sentLog, rxLog, nLines, lastLine>>

\* one interval callback: the closure's idx against the global base64.
\* sendByte's write may fail; its callback then only logs.
WriterTick(w) ==
  /\ pc = "running"
  /\ writers[w].st = "interval"
  /\ IF writers[w].idx = Len(base64)
       THEN /\ writers' = [writers EXCEPT ![w].st = "done"]
            /\ UNCHANGED lastWrite
       ELSE \E failed \in BOOLEAN :
            /\ lastWrite' = [w |-> w, pos |-> writers[w].idx,
                             c |-> base64[writers[w].idx + 1], err |-> failed]
            /\ writers' = [writers EXCEPT ![w].idx = @ + 1]
  /\ UNCHANGED <<pc, exitCode, fatal, payload, chunks, idx, max, port, base64,
                 sentLog, rxLog, nLines, lastLine>>

WriterStep == \E w \in 1..Len(writers) : WriterTimeout(w) \/ WriterTick(w)

----------------------------------------------------------------------------

Next ==
  \/ MainBegin
  \/ MainReadFailed
  \/ MainSetup
  \/ PortOpen
  \/ PortError
  \/ Start
  \/ RecvLine
  \/ WriterStep

Spec == Init /\ [][Next]_vars

----------------------------------------------------------------------------
(* The run with a peer that answers: one k or f line for every chunk, sent   *)
(* once the chunk's burst has been written, Failure at most MaxLines times.  *)

Failures == Cardinality({j \in 1..Len(rxLog) : rxLog[j] = "F"})

\* the data handler on the answer of such a peer
PeerAnswer ==
  /\ pc = "running"
  /\ port = "open"
  /\ Busy = 0
  /\ Len(sentLog) - Len(rxLog) = 1
  /\ \E line \in {l \in Lines : Classify(l) \in {"S", "F"}} :
       /\ Classify(line) = "F" => Failures < MaxLines
       /\ OnData(line)
  /\ UNCHANGED <<fatal, payload, chunks, max, lastWrite>>

LiveNext ==
  \/ MainBegin
  \/ MainReadFailed
  \/ MainSetup
  \/ PortOpen
  \/ PortError
  \/ Start
  \/ PeerAnswer
  \/ WriterStep

\* the event loop runs every callback that is due, and the peer answers
LiveSpec ==
  /\ Init
  /\ [][LiveNext]_vars
  /\ WF_vars(Start)
  /\ WF_vars(WriterStep)
  /\ WF_vars(PeerAnswer)

----------------------------------------------------------------------------
(* Vocabulary of the properties *)

\* chunks sent and not yet answered by a classified response
InFlight == Len(sentLog) - Len(rxLog)

\* the step delivers a line of the peer to the parser's handler
LineStep == nLines' = nLines + 1

\* the trimmed text of the line the step delivers
Received == Trim(lastLine')

\* the session has ended through quit
Terminated == pc = "exited" /\ exitCode = 0 /\ port = "closed"

\* main has cut the file into chunks and has gone on to set up the connection
ChunksBuilt == port # "none"

AllSuccess == \A j \in 1..Len(rxLog) : rxLog[j] = "S"

\* the number of chunks a payload of L bytes is documented to give
ChunkCount(L) == IF L = 0 THEN 1 ELSE (L + ChunkSize - 1) \div ChunkSize

RECURSIVE Flatten(_)
Flatten(ss) == IF ss = <<>> THEN <<>> ELSE Head(ss) \o Flatten(Tail(ss))

\* the payload bytes of chunk j of a payload of L bytes, taken from the padded chunk
UnpaddedPrefix(L, j) ==
  SubSeq(appendPadding(chunks[j]), 1, Min(ChunkSize, L - ChunkSize * (j - 1)))

----------------------------------------------------------------------------
(* C1: stop-and-wait.  At most one sent chunk is unanswered at any time, and *)
(* every send after the first happens in the step that receives a k or f    *)
(* line, while exactly one chunk is outstanding, and moves at most one      *)
(* index forward.                                                           *)
C1_StopAndWait ==
  [][ /\ InFlight' \in {0, 1}
      /\ (sentLog # <<>> /\ sentLog' # sentLog) =>
           /\ LineStep
           /\ Received \in {<<"k">>, <<"f">>}
           /\ InFlight = 1
           /\ Len(sentLog') = Len(sentLog) + 1
           /\ Len(rxLog') = Len(rxLog) + 1
           /\ sentLog'[Len(sentLog')].index \in {idx, idx + 1} ]_vars

\* chunk 1 has been sent after the answer to chunk 0 and is itself unanswered
C1_Witness ==
  /\ Len(sentLog) = 2
  /\ sentLog[2].index = 1
  /\ rxLog = <<"S">>
  /\ InFlight = 1

(* C2: while every classified response so far is Success, the chunks sent   *)
(* are 0, 1, ... in order, each once, framed from the stored chunk; the     *)
(* session has terminated exactly when count responses have been received,  *)
(* and then exactly count chunks were sent.                                 *)
C2_AllSuccess ==
  (sentLog # <<>> /\ AllSuccess) =>
    LET n == Len(rxLog)
        count == Len(chunks)
    IN /\ count >= 1
       /\ n <= count
       /\ Len(sentLog) = Min(n + 1, count)
       /\ \A j \in 1..Len(sentLog) :
            sentLog[j] = [index |-> j - 1, frame |-> Frame(chunks[j])]
       /\ pc \in {"running", "exited"}
       /\ (n = count) <=> Terminated

\* a two-chunk session answered k, k has terminated
C2_Witness ==
  /\ Len(chunks) = 2
  /\ rxLog = <<"S", "S">>
  /\ Len(sentLog) = 2
  /\ Terminated

C4_Boundary ==
  [][ (LineStep /\ idx = Len(chunks) - 1) =>
        /\ Received = <<"k">> =>
             /\ pc' = "exited" /\ exitCode' = 0 /\ port' = "closed"
             /\ sentLog' = sentLog
             /\ writers' = writers
             /\ idx' = idx
        /\ Received = <<"f">> =>
             /\ pc' = "running" /\ exitCode' = exitCode /\ port' = port
             /\ idx' = idx
             /\ sentLog' = Append(sentLog, [index |-> idx,
                                           frame |-> Frame(chunks[idx + 1])]) ]_vars

\* the only chunk failed, was sent again, and its Success ended the session
C4_Witness ==
  /\ Len(chunks) = 1
  /\ rxLog = <<"F", "S">>
  /\ Len(sentLog) = 2
  /\ Terminated

(* C5: an empty payload gives one chunk of eight zero bytes and its session *)
(* sends that chunk and terminates on Success like any one-chunk session.   *)
C5_EmptyPayload ==
  (ChunksBuilt /\ payload = <<>>) =>
    /\ Len(chunks) = 1
    /\ appendPadding(chunks[1]) = Zeros(ChunkSize)
    /\ pc # "crashed"
    /\ pc = "running" => sentLog[1].index = 0

(* C6: a payload of L bytes gives ceil(L/8) chunks (1 if L = 0), each 8     *)
(* bytes after padding, whose unpadded prefixes concatenate to the payload. *)
C6_Chunking ==
  ChunksBuilt =>
    LET L == Len(payload) IN
    /\ Len(chunks) = ChunkCount(L)
    /\ \A j \in 1..Len(chunks) : Len(appendPadding(chunks[j])) = ChunkSize
    /\ Flatten([j \in 1..Len(chunks) |-> UnpaddedPrefix(L, j)]) = payload

(* C7: a line whose trimmed text is neither k nor f changes nothing of the  *)
(* session: index, sends, bursts, responses, and the session keeps running. *)
C7_Unrecognized ==
  [][ (LineStep /\ Received \notin {<<"k">>, <<"f">>}) =>
        /\ idx' = idx
        /\ sentLog' = sentLog
        /\ writers' = writers
        /\ base64' = base64
        /\ rxLog' = rxLog
        /\ pc' = "running" /\ exitCode' = exitCode /\ port' = port ]_vars

\* the line "kf" has been delivered after a chunk was sent and nothing followed
C7_Witness ==
  /\ nLines = 1
  /\ lastLine = <<"k", "f">>
  /\ rxLog = <<>>
  /\ Len(sentLog) = 1
  /\ pc = "running"

(* C8: once a fatal setup error has occurred the run is over: every later   *)
(* step sends no chunk, and the process has ended with failure status.      *)
C8_FatalAborts ==
  [][ fatal # "none" =>
        /\ sentLog' = sentLog
        /\ pc' \in {"exited", "crashed"}
        /\ exitCode' = 1 ]_vars

(* C9: the index lies in 0..count-1 whenever the index manager exists; it   *)
(* never decreases; a Failure keeps it; a Success adds one, or at count-1   *)
(* keeps it and ends the session; no other step changes it.                 *)
C9_IndexRule ==
  [][ /\ port' # "none" => idx' \in 0..(Len(chunks') - 1)
      /\ port # "none" =>
           /\ idx' >= idx
           /\ (LineStep /\ Received = <<"f">>) => idx' = idx
           /\ (LineStep /\ Received = <<"k">>) =>
                IF idx = Len(chunks) - 1
                  THEN idx' = idx /\ pc' = "exited"
                  ELSE idx' = idx + 1
           /\ ~(LineStep /\ Received \in {<<"k">>, <<"f">>}) => idx' = idx ]_vars

(* C10: from the first send on, the chunk at the current index has been     *)
(* sent and no chunk with a greater index has.                              *)
C10_SentUpToIndex ==
  sentLog # <<>> =>
    /\ \E j \in 1..Len(sentLog) : sentLog[j].index = idx
    /\ \A j \in 1..Len(sentLog) : sentLog[j].index <= idx

\* chunk 1 is the current chunk, after chunk 0 was answered f, then k
C10_Witness ==
  /\ idx = 1
  /\ rxLog = <<"F", "S">>
  /\ sentLog[Len(sentLog)].index = 1
  /\ pc = "running"

(* C11: the session becomes Terminated only in the step that receives a k  *)
(* line while the index is count-1, never on a Failure or an unrecognized   *)
(* line, and once Terminated every index 0..count-1 has been sent.          *)
C11_OnlySuccessTerminates ==
  [][ /\ (~Terminated /\ Terminated') =>
           /\ LineStep
           /\ Received = <<"k">>
           /\ idx = Len(chunks) - 1
      /\ (LineStep /\ Received # <<"k">>) => (pc' = "running" /\ port' = port)
      /\ Terminated' =>
           \A i \in 0..(Len(chunks) - 1) :
             \E j \in 1..Len(sentLog') : sentLog'[j].index = i ]_vars

\* a two-chunk session that terminated on a k wrapped in white space
C11_Witness ==
  /\ Terminated
  /\ Len(chunks) = 2
  /\ lastLine = <<" ", "k", "\r">>
  /\ {sentLog[j].index : j \in 1..Len(sentLog)} = {0, 1}

\* the checksum as a weighted sum of the least-significant bits
LsbFold(p) ==
  LET Pow2[n \in 0..ChunkSize] == IF n = 0 THEN 1 ELSE 2 * Pow2[n - 1]
      Sum[i \in 0..Len(p)] ==
        IF i = 0 THEN 0 ELSE Sum[i - 1] + (p[i] % 2) * Pow2[Len(p) - i]
  IN Sum[Len(p)]

\* f is the framed block of the chunk c
FramedFrom(f, c) ==
  /\ Len(c) \in 1..ChunkSize
  /\ Len(f) = ChunkSize + 1
  /\ SubSeq(f, 1, Len(c)) = c
  /\ \A i \in (Len(c) + 1)..ChunkSize : f[i] = 0
  /\ f[ChunkSize + 1] = LsbFold(SubSeq(f, 1, ChunkSize))

(* C12: every stored chunk of 1..8 bytes is framed into 9 bytes: its own    *)
(* bytes, then 8 - len zero bytes (none for a full chunk, which padding     *)
(* returns as it is), then the checksum of those 8 bytes; and every block   *)
(* sent is such a frame of the chunk it was sent for.                       *)
C12_Framing ==
  [][ /\ (pc' = "waitStart") =>
           \A j \in 1..Len(chunks') :
             /\ FramedFrom(Frame(chunks'[j]), chunks'[j])
             /\ (Len(chunks'[j]) = ChunkSize) => (appendPadding(chunks'[j]) = chunks'[j])
      /\ (sentLog' # sentLog) =>
           LET e == sentLog'[Len(sentLog')] IN
           FramedFrom(e.frame, chunks[e.index + 1]) ]_vars

\* a full chunk and a one-byte chunk have both been framed and sent
C12_Witness ==
  /\ Len(chunks) = 2
  /\ Len(chunks[1]) = ChunkSize
  /\ Len(chunks[2]) = 1
  /\ Len(sentLog) = 2
  /\ sentLog[2].index = 1

\* all 8-byte blocks of zeros and ones
BitBlocks == [1..ChunkSize -> {0, 1}]

(* C13: once the chunks are cut, the checksum of every padded chunk is the  *)
(* shift-and-add fold of its least-significant bits, lies in 0..255, is the *)
(* byte appended, and equals the checksum of another 8-byte block exactly   *)
(* when the two agree in every least-significant bit.                       *)
C13_Checksum ==
  (pc = "waitStart") =>
    \A j \in 1..Len(chunks) :
      LET p == appendPadding(chunks[j]) IN
      /\ checkSum(p) = LsbFold(p)
      /\ checkSum(p) \in 0..255
      /\ appendChecksum(p)[ChunkSize + 1] = checkSum(p)
      /\ \A b \in BitBlocks :
           (checkSum(b) = checkSum(p)) <=> (\A i \in 1..ChunkSize : b[i] = p[i] % 2)

\* a padded chunk with odd and even bytes whose checksum is neither 0 nor 255
C13_Witness ==
  /\ pc = "waitStart"
  /\ Len(chunks) = 2
  /\ checkSum(appendPadding(chunks[1])) \in 1..254
  /\ checkSum(appendPadding(chunks[2])) = 128

(* C14: with a fair event loop and a peer that answers every chunk, Failure *)
(* only finitely often, a running session on an open port terminates.       *)
C14_Terminates == (pc = "running" /\ port = "open") ~> Terminated

\* a two-chunk session has terminated after a Failure
C14_Witness ==
  /\ Terminated
  /\ Len(chunks) = 2
  /\ Failures >= 1

(* C15: a chunk is sent only by the start callback or in the step that      *)
(* receives a k or f line; every other step leaves the index, the sends and *)
(* the session's status alone; and every Failure, however many came before, *)
(* sends the current chunk once more and the session runs on.               *)
C15_OnlyReactions ==
  [][ /\ sentLog' # sentLog =>
           (pc = "waitStart" \/ (LineStep /\ Received \in {<<"k">>, <<"f">>}))
      /\ (pc = "running" /\ ~(LineStep /\ Received \in {<<"k">>, <<"f">>})) =>
           /\ idx' = idx
           /\ sentLog' = sentLog
           /\ rxLog' = rxLog
           /\ pc' = "running" /\ exitCode' = exitCode
      /\ (LineStep /\ Received = <<"f">>) =>
           /\ sentLog' = Append(sentLog, sentLog[Len(sentLog)])
           /\ sentLog'[Len(sentLog')].index = idx
           /\ idx' = idx
           /\ pc' = "running" /\ exitCode' = exitCode /\ port' = port ]_vars

\* two Failures in a row: the same chunk sent three times, session running
C15_Witness ==
  /\ rxLog = <<"F", "F">>
  /\ Len(sentLog) = 3
  /\ sentLog[1] = sentLog[2]
  /\ sentLog[2] = sentLog[3]
  /\ pc = "running"

(* C16: until the start callback has run nothing is sent, written or        *)
(* classified; the first send is made by the start callback, is chunk 0 and *)
(* leaves the index 0; once it has run the process never waits for it again *)
(* and every further send belongs to a received line.                       *)
C16_StartOnce ==
  [][ /\ pc \in {"main", "reading", "waitStart"} =>
           /\ sentLog = <<>>
           /\ writers = <<>>
           /\ lastWrite = NoWrite
           /\ nLines = 0 /\ rxLog = <<>>
      /\ (sentLog = <<>> /\ sentLog' # <<>>) =>
           /\ pc = "waitStart"
           /\ sentLog' = <<[index |-> 0, frame |-> Frame(chunks[1])]>>
           /\ idx' = 0
      /\ pc \in {"running", "exited", "crashed"} =>
           /\ pc' # "waitStart"
           /\ Len(sentLog') > Len(sentLog) => LineStep ]_vars

\* the session has started: chunk 0 sent, index 0, a character written, no line yet
C16_Witness ==
  /\ pc = "running"
  /\ idx = 0
  /\ Len(sentLog) = 1
  /\ sentLog[1].index = 0
  /\ nLines = 0
  /\ lastWrite.w = 1

(* C17: a byte write that fails changes nothing of the session: it runs on, *)
(* the index and the sends are untouched, the writer moves to the next      *)
(* character (no retry of this one) and its interval stays installed.       *)
C17_WriteErrorLogged ==
  [][ (lastWrite' # lastWrite /\ lastWrite'.err) =>
        LET w == lastWrite'.w IN
        /\ pc' = "running" /\ exitCode' = exitCode /\ port' = port
        /\ idx' = idx
        /\ sentLog' = sentLog
        /\ rxLog' = rxLog
        /\ writers'[w].idx = writers[w].idx + 1
        /\ lastWrite'.pos = writers[w].idx
        /\ writers'[w].st = "interval"
        /\ \A v \in 1..Len(writers) : v # w => writers'[v] = writers[v] ]_vars

\* the third character of a burst failed and the writer went on to the end
C17_Witness ==
  /\ lastWrite.err
  /\ lastWrite.pos = 2
  /\ writers[lastWrite.w].idx = 3
  /\ pc = "running"

(* C18: every character written is the one at the writer's position in the  *)
(* encoding of the chunk its burst was started for, and a burst's           *)
(* characters follow one another on the transport with no other write       *)
(* between them.                                                            *)
C18_ContiguousBursts ==
  [][ lastWrite' # lastWrite =>
        LET w == lastWrite'.w
            pos == lastWrite'.pos
        IN /\ lastWrite'.c = toBase64(writers[w].data)[pos + 1]
           /\ pos > 0 => (lastWrite.w = w /\ lastWrite.pos = pos - 1) ]_vars

(* C19: when the session has terminated every burst that was started has    *)
(* been written to its last character.                                      *)
C19_NothingLeftUnwritten ==
  Terminated =>
    \A w \in 1..Len(writers) : writers[w].idx = Len(toBase64(writers[w].data))

====
